---- MODULE Spec2Model ----
(***************************************************************************)
(* Meeting lifecycle and user linkage of the retailer API: the handlers    *)
(* request_bot, stop_bot (routers/bots.py), get_transcript                 *)
(* (routers/transcripts.py) and handle_webhook (routers/webhooks.py),      *)
(* running as concurrent requests against one relational store and one     *)
(* upstream bot service.  Every action is one interaction of a handler     *)
(* with the store (a query or a commit) together with the code that runs   *)
(* up to the next one; the upstream client is synchronous, so its calls    *)
(* belong to the stretch they are made in.  Requests interleave at the     *)
(* awaits of the handlers.  Requests carry no identity of their own, so    *)
(* the requests in flight and the answered ones are kept as a bag.         *)
(***************************************************************************)
EXTENDS Integers, Sequences, FiniteSets, Bags, TLC

\* ---------------------------------------------------------------- bounds
\* Number of HTTP requests handled in one behaviour.
MaxReq == 3
\* Number of authenticated users.
NumUsers == 2
\* Longest transcript the upstream service returns.
MaxSegs == 2
\* ------------------------------------------------------------- constants
Platforms == {"google_meet", "zoom"}
NativeIds == {"abc-123"}
Keys == Platforms \X NativeIds
Users == 1..NumUsers

HTTP_200_OK == 200
HTTP_201_CREATED == 201
HTTP_202_ACCEPTED == 202
HTTP_404_NOT_FOUND == 404
HTTP_500_INTERNAL_SERVER_ERROR == 500
HTTP_502_BAD_GATEWAY == 502

\* The start_time values of the segments the upstream service returns: an
\* earlier and a later one, so that two segments can come in order, out of
\* order or at the same time.
StartTimes == {1, 2}

\* What the upstream get_transcript may answer: the start_time of each
\* segment, in the order the upstream service delivers them.
Transcripts == UNION {[1..n -> StartTimes] : n \in 0..MaxSegs}

VARIABLES
    meetings,       \* table Meeting, in insertion order; a row's id is its index
    user_meetings,  \* table UserMeeting, in insertion order
    transcriptions, \* table Transcription, in insertion order
    infra_bots,     \* per natural key: bots the upstream service has provisioned
    reqs,           \* bag of requests: handler, position, locals and response
    users,          \* table User, in insertion order; a row's id is its index
    api_tokens,     \* table APIToken, in insertion order
    admin_reqs      \* bag of admin requests: handler, position, locals, response

\* What the handlers of the meeting lifecycle read and write.
meeting_vars == <<meetings, user_meetings, transcriptions, infra_bots, reqs>>

\* What the admin handlers read and write.
admin_vars == <<users, api_tokens, admin_reqs>>

vars == <<meetings, user_meetings, transcriptions, infra_bots, reqs,
          users, api_tokens, admin_reqs>>

\* ------------------------------------------------------------- requests
NoKey == <<"", "">>

\* The locals of a request that has just entered handler op.  A webhook has
\* no current user (user 0).
Enter(op, u, k) ==
    [op |-> op, pc |-> "start", user |-> u, key |-> k, meeting |-> 0,
     is_live |-> FALSE, pending |-> <<>>, status |-> 0, err |-> "",
     calls |-> {}, source |-> "", segments |-> <<>>]

\* Another request can still arrive.
CanArrive == BagCardinality(reqs) < MaxReq

\* A new request arrives and runs to q.
Admit(q) == reqs' = reqs (+) SetToBag({q})

\* The request p in flight runs on to q.
Step(p, q) == reqs' = (reqs (-) SetToBag({p})) (+) SetToBag({q})

\* The request q is in handler op, about to run the stretch pc.
At(q, op, pc) == q.op = op /\ q.pc = pc

\* The requests handler op has answered.
Answered(op) == {q \in BagToSet(reqs) : At(q, op, "done")}

\* ---------------------------------------------------------------- store
KeyOf(row) == <<row.platform, row.platform_specific_id>>

\* select(Meeting).filter(platform == .., platform_specific_id == ..)
MeetingsByKey(k) == {i \in DOMAIN meetings : KeyOf(meetings[i]) = k}

\* select(UserMeeting).filter(user_id == .., meeting_id == ..)
LinksOf(u, m) ==
    {i \in DOMAIN user_meetings :
        user_meetings[i].user_id = u /\ user_meetings[i].meeting_id = m}

\* Faulty variant of MeetingsByKeyForUser: the lookup without the join on the
\* caller's link.
MeetingsByKeyForUser_NoJoin(k, u) == MeetingsByKey(k)

\* select(Meeting).join(UserMeeting).filter(.., UserMeeting.user_id == ..)
MeetingsByKeyForUser(k, u) == {i \in MeetingsByKey(k) : LinksOf(u, i) # {}}

\* Faulty variant of MeetingKeyFree: the table without its unique constraint.
MeetingKeyFree_Unenforced(k) == TRUE

\* Unique constraint on (Meeting.platform, Meeting.platform_specific_id).
MeetingKeyFree(k) == MeetingsByKey(k) = {}

\* Unique constraint on (UserMeeting.user_id, UserMeeting.meeting_id).
LinkFree(u, m) == LinksOf(u, m) = {}

Init ==
    /\ meetings = <<>>
    /\ user_meetings = <<>>
    /\ transcriptions = <<>>
    /\ infra_bots = [k \in Keys |-> 0]
    /\ reqs = EmptyBag
    /\ users = <<>>
    /\ api_tokens = <<>>
    /\ admin_reqs = EmptyBag

\* -------------------------------------------------------------- request_bot
\* The row request_bot builds for a meeting it provisioned.
NewMeeting(k) ==
    [platform |-> k[1], platform_specific_id |-> k[2], status |-> "active",
     is_live |-> TRUE, transcript_cached |-> FALSE]

\* Faulty variant of RequestBotCallInfra: the Meeting row is inserted before the
\* upstream call and stays when the call is refused.
RequestBotCallInfra_Orphan(u, k) ==
    \/ /\ infra_bots' = [infra_bots EXCEPT ![k] = @ + 1]
       /\ Admit([Enter("request_bot", u, k) EXCEPT !.pc = "commit_meeting",
                                                   !.calls = {"request_bot"}])
       /\ UNCHANGED <<meetings, user_meetings, transcriptions>>
    \/ /\ Admit([Enter("request_bot", u, k) EXCEPT !.pc = "done",
                                                   !.status = HTTP_502_BAD_GATEWAY,
                                                   !.err = "infra",
                                                   !.calls = {"request_bot"}])
       /\ meetings' = Append(meetings, NewMeeting(k))
       /\ UNCHANGED <<user_meetings, transcriptions, infra_bots>>

\* infra_client.request_bot(..): the upstream service provisions a bot, or
\* raises VexaClientError and the handler answers 502 with nothing stored.
RequestBotCallInfra(u, k) ==
    \/ /\ infra_bots' = [infra_bots EXCEPT ![k] = @ + 1]
       /\ Admit([Enter("request_bot", u, k) EXCEPT !.pc = "commit_meeting",
                                                   !.calls = {"request_bot"}])
       /\ UNCHANGED <<meetings, user_meetings, transcriptions>>
    \/ /\ Admit([Enter("request_bot", u, k) EXCEPT !.pc = "done",
                                                   !.status = HTTP_502_BAD_GATEWAY,
                                                   !.err = "infra",
                                                   !.calls = {"request_bot"}])
       /\ UNCHANGED <<meetings, user_meetings, transcriptions, infra_bots>>

\* The natural-key lookup; when it finds nothing the handler goes on to the
\* upstream call.
RequestBotLookup(u, k) ==
    /\ CanArrive
    /\ \/ /\ MeetingsByKey(k) = {}
          /\ RequestBotCallInfra(u, k)
       \/ /\ \E m \in MeetingsByKey(k) :
                Admit([Enter("request_bot", u, k) EXCEPT !.pc = "check_link",
                                                         !.meeting = m])
          /\ UNCHANGED <<meetings, user_meetings, transcriptions, infra_bots>>

\* The existing-link lookup of the branch that found the meeting; a request
\* that finds its link returns the existing meeting.
RequestBotCheckLink(q) ==
    /\ At(q, "request_bot", "check_link")
    /\ IF LinkFree(q.user, q.meeting)
         THEN Step(q, [q EXCEPT !.pc = "commit_link"])
         ELSE Step(q, [q EXCEPT !.pc = "done", !.status = HTTP_201_CREATED])
    /\ UNCHANGED <<meetings, user_meetings, transcriptions, infra_bots>>

\* db.add(UserMeeting(..)); await db.commit().  The handler catches nothing:
\* a violated unique constraint ends the request with a server error.
CommitLink(q) ==
    /\ IF LinkFree(q.user, q.meeting)
         THEN /\ user_meetings' = Append(user_meetings,
                    [user_id |-> q.user, meeting_id |-> q.meeting])
              /\ Step(q, [q EXCEPT !.pc = "done", !.status = HTTP_201_CREATED])
         ELSE /\ user_meetings' = user_meetings
              /\ Step(q, [q EXCEPT !.pc = "done",
                                   !.status = HTTP_500_INTERNAL_SERVER_ERROR,
                                   !.err = "integrity"])
    /\ UNCHANGED <<meetings, transcriptions, infra_bots>>

\* Faulty variant of RequestBotCommitLink: a request for an existing meeting marks it
\* live again when it links its user.
RequestBotCommitLink_Reactivates(q) ==
    /\ At(q, "request_bot", "commit_link")
    /\ LinkFree(q.user, q.meeting)
    /\ user_meetings' = Append(user_meetings,
            [user_id |-> q.user, meeting_id |-> q.meeting])
    /\ meetings' = [meetings EXCEPT ![q.meeting].is_live = TRUE,
                                    ![q.meeting].transcript_cached = FALSE]
    /\ Step(q, [q EXCEPT !.pc = "done", !.status = HTTP_201_CREATED])
    /\ UNCHANGED <<transcriptions, infra_bots>>

\* The link of the requesting user to a meeting that already existed.
RequestBotCommitLink(q) ==
    /\ At(q, "request_bot", "commit_link")
    /\ CommitLink(q)

\* db.add(new_meeting); await db.commit(); await db.refresh(new_meeting)
RequestBotCommitMeeting(q) ==
    /\ At(q, "request_bot", "commit_meeting")
    /\ IF MeetingKeyFree(q.key)
         THEN /\ meetings' = Append(meetings, NewMeeting(q.key))
              /\ Step(q, [q EXCEPT !.pc = "commit_new_link",
                                   !.meeting = Len(meetings) + 1])
         ELSE /\ meetings' = meetings
              /\ Step(q, [q EXCEPT !.pc = "done",
                                   !.status = HTTP_500_INTERNAL_SERVER_ERROR,
                                   !.err = "integrity"])
    /\ UNCHANGED <<user_meetings, transcriptions, infra_bots>>

\* The link of the requesting user to the meeting just created.
RequestBotCommitNewLink(q) ==
    /\ At(q, "request_bot", "commit_new_link")
    /\ CommitLink(q)

\* ------------------------------------------------------------------ stop_bot
\* Delegates to the upstream service and touches no table; the answer is the
\* upstream acknowledgment or 502, whoever asks and for whatever meeting.
StopBot(u, k) ==
    /\ CanArrive
    /\ \E ok \in BOOLEAN :
         Admit([Enter("stop_bot", 0, NoKey) EXCEPT
                !.pc = "done", !.calls = {"stop_bot"},
                !.status = IF ok THEN HTTP_202_ACCEPTED ELSE HTTP_502_BAD_GATEWAY,
                !.err = IF ok THEN "" ELSE "infra"])
    /\ UNCHANGED <<meetings, user_meetings, transcriptions, infra_bots>>

\* ------------------------------------------------------------ handle_webhook
\* infra_client.get_transcript(..), then the segments and the two flags are
\* staged in the session; VexaClientError rolls back and answers 502.
WebhookFetch(k, m) ==
    \/ \E t \in Transcripts :
        Admit([Enter("handle_webhook", 0, k) EXCEPT
                !.pc = "commit", !.meeting = m, !.pending = t,
                !.calls = {"get_transcript"}])
    \/ Admit([Enter("handle_webhook", 0, k) EXCEPT
                !.pc = "done", !.meeting = m, !.status = HTTP_502_BAD_GATEWAY,
                !.err = "fetch", !.calls = {"get_transcript"}])

\* The natural-key lookup of the finalization webhook: 404 for an unknown
\* meeting, else the transcript is fetched.
WebhookLookup(k) ==
    /\ CanArrive
    /\ \/ /\ MeetingsByKey(k) = {}
          /\ Admit([Enter("handle_webhook", 0, k) EXCEPT
                    !.pc = "done", !.status = HTTP_404_NOT_FOUND])
       \/ \E m \in MeetingsByKey(k) : WebhookFetch(k, m)
    /\ UNCHANGED <<meetings, user_meetings, transcriptions, infra_bots>>

\* The rows staged for the segments of a transcript.
SegmentRows(m, t) == [i \in DOMAIN t |-> [meeting_id |-> m, start_time |-> t[i]]]

\* infra_client.delete_meeting(..) runs after the commit but inside the same
\* try block: its VexaClientError reaches the handler's except clause, which
\* rolls back the (already committed, so empty) session and answers 502.
WebhookCleanup(q) ==
    \/ Step(q, [q EXCEPT !.pc = "done", !.status = HTTP_200_OK,
                         !.pending = <<>>,
                         !.calls = @ \cup {"delete_meeting"}])
    \/ Step(q, [q EXCEPT !.pc = "done", !.status = HTTP_502_BAD_GATEWAY,
                         !.err = "cleanup", !.pending = <<>>,
                         !.calls = @ \cup {"delete_meeting"}])

\* Faulty variant of WebhookCommit: the flags are committed on their own before the
\* segments, so a failing commit of the segments leaves the meeting archived
\* without them.
WebhookCommit_FlagsFirst(q) ==
    /\ At(q, "handle_webhook", "commit")
    /\ \/ /\ transcriptions' = transcriptions \o SegmentRows(q.meeting, q.pending)
          /\ meetings' = [meetings EXCEPT ![q.meeting].is_live = FALSE,
                                          ![q.meeting].transcript_cached = TRUE]
          /\ WebhookCleanup(q)
       \/ /\ transcriptions' = transcriptions
          /\ meetings' = [meetings EXCEPT ![q.meeting].is_live = FALSE,
                                          ![q.meeting].transcript_cached = TRUE]
          /\ Step(q, [q EXCEPT !.pc = "done", !.pending = <<>>,
                               !.status = HTTP_500_INTERNAL_SERVER_ERROR,
                               !.err = "commit"])
    /\ UNCHANGED <<user_meetings, infra_bots>>

\* Faulty variant of WebhookCommit: a delivery for a meeting whose transcript
\* is already cached stores nothing more.
WebhookCommit_OncePerMeeting(q) ==
    /\ At(q, "handle_webhook", "commit")
    /\ \/ /\ transcriptions' =
                IF meetings[q.meeting].transcript_cached
                  THEN transcriptions
                  ELSE transcriptions \o SegmentRows(q.meeting, q.pending)
          /\ meetings' = [meetings EXCEPT ![q.meeting].is_live = FALSE,
                                          ![q.meeting].transcript_cached = TRUE]
          /\ WebhookCleanup(q)
       \/ /\ UNCHANGED <<transcriptions, meetings>>
          /\ Step(q, [q EXCEPT !.pc = "done", !.pending = <<>>,
                               !.status = HTTP_500_INTERNAL_SERVER_ERROR,
                               !.err = "commit"])
    /\ UNCHANGED <<user_meetings, infra_bots>>

\* Faulty variant of WebhookCommit: the segments are committed on their own
\* before the flags, so a failing commit of the flags leaves a live meeting
\* with stored segments.
WebhookCommit_SegmentsFirst(q) ==
    /\ At(q, "handle_webhook", "commit")
    /\ \/ /\ transcriptions' = transcriptions \o SegmentRows(q.meeting, q.pending)
          /\ meetings' = [meetings EXCEPT ![q.meeting].is_live = FALSE,
                                          ![q.meeting].transcript_cached = TRUE]
          /\ WebhookCleanup(q)
       \/ /\ transcriptions' = transcriptions \o SegmentRows(q.meeting, q.pending)
          /\ meetings' = meetings
          /\ Step(q, [q EXCEPT !.pc = "done", !.pending = <<>>,
                               !.status = HTTP_500_INTERNAL_SERVER_ERROR,
                               !.err = "commit"])
    /\ UNCHANGED <<user_meetings, infra_bots>>

\* await db.commit(): the staged segments and the flag update become visible
\* together and the cleanup call follows, or the commit raises, the session
\* is rolled back and the answer is 500.
WebhookCommit(q) ==
    /\ At(q, "handle_webhook", "commit")
    /\ \/ /\ transcriptions' = transcriptions \o SegmentRows(q.meeting, q.pending)
          /\ meetings' = [meetings EXCEPT ![q.meeting].is_live = FALSE,
                                          ![q.meeting].transcript_cached = TRUE]
          /\ WebhookCleanup(q)
       \/ /\ UNCHANGED <<transcriptions, meetings>>
          /\ Step(q, [q EXCEPT !.pc = "done", !.pending = <<>>,
                               !.status = HTTP_500_INTERNAL_SERVER_ERROR,
                               !.err = "commit"])
    /\ UNCHANGED <<user_meetings, infra_bots>>

\* ------------------------------------------------------------ get_transcript
\* The start_time of the Transcription rows of meeting m, in table order.
RECURSIVE StartTimesOf(_, _)
StartTimesOf(rows, m) ==
    IF rows = <<>> THEN <<>>
    ELSE (IF Head(rows).meeting_id = m THEN <<Head(rows).start_time>> ELSE <<>>)
            \o StartTimesOf(Tail(rows), m)

\* Insertion of x into an ascending sequence, after the entries equal to it.
RECURSIVE InsertSorted(_, _)
InsertSorted(x, s) ==
    IF s = <<>> THEN <<x>>
    ELSE IF x < Head(s) THEN <<x>> \o s
    ELSE <<Head(s)>> \o InsertSorted(x, Tail(s))

\* Faulty variant of OrderByStartTime: the rows come back in table order.
OrderByStartTime_TableOrder(s) == s

\* .order_by(Transcription.start_time)
RECURSIVE OrderByStartTime(_)
OrderByStartTime(s) ==
    IF s = <<>> THEN <<>>
    ELSE InsertSorted(s[Len(s)], OrderByStartTime(SubSeq(s, 1, Len(s) - 1)))

\* Faulty variant of IsLive: every meeting is taken to be live.
IsLive_Always(row) == TRUE

\* meeting.data.get("is_live", False)
IsLive(row) == row.is_live

\* The live branch: the upstream transcript is returned as it comes, and any
\* exception of the call is answered 502.
GetTranscriptLive(u, k, m) ==
    \/ Admit([Enter("get_transcript", u, k) EXCEPT
                !.pc = "done", !.meeting = m, !.is_live = meetings[m].is_live,
                !.status = HTTP_200_OK, !.source = "infra",
                !.calls = {"get_transcript"}])
    \/ Admit([Enter("get_transcript", u, k) EXCEPT
                !.pc = "done", !.meeting = m, !.is_live = meetings[m].is_live,
                !.status = HTTP_502_BAD_GATEWAY, !.err = "infra",
                !.calls = {"get_transcript"}])

\* The lookup joined with the caller's link: a meeting the caller is not
\* linked to is answered like a meeting that does not exist.  A live meeting
\* is proxied at once; a meeting that is not live goes on to the cache query.
GetTranscriptLookup(u, k) ==
    /\ CanArrive
    /\ \/ /\ MeetingsByKeyForUser(k, u) = {}
          /\ Admit([Enter("get_transcript", u, k) EXCEPT
                    !.pc = "done", !.status = HTTP_404_NOT_FOUND])
       \/ \E m \in MeetingsByKeyForUser(k, u) :
            IF IsLive(meetings[m])
              THEN GetTranscriptLive(u, k, m)
              ELSE Admit([Enter("get_transcript", u, k) EXCEPT
                        !.pc = "read_cache", !.meeting = m,
                        !.is_live = meetings[m].is_live])
    /\ UNCHANGED <<meetings, user_meetings, transcriptions, infra_bots>>

\* The cached branch: the stored segments of the meeting, by start_time.
GetTranscriptCached(q) ==
    /\ At(q, "get_transcript", "read_cache")
    /\ Step(q, [q EXCEPT !.pc = "done", !.status = HTTP_200_OK,
                         !.source = "cache",
                         !.segments = OrderByStartTime(
                                StartTimesOf(transcriptions, q.meeting))])
    /\ UNCHANGED <<meetings, user_meetings, transcriptions, infra_bots>>

\* --------------------------------------------------------------------- admin
\* The emails the admin asks for.
Emails == {"ann@example.com", "bob@example.com"}

\* The locals of an admin request that has just entered handler op.
EnterAdmin(op, email, uid) ==
    [op |-> op, pc |-> "start", email |-> email, user_id |-> uid,
     status |-> 0, err |-> ""]

\* Another admin request can still arrive.
CanArriveAdmin == BagCardinality(admin_reqs) < MaxReq

\* A new admin request arrives and runs to q.
AdmitAdmin(q) == admin_reqs' = admin_reqs (+) SetToBag({q})

\* The admin request p in flight runs on to q.
StepAdmin(p, q) == admin_reqs' = (admin_reqs (-) SetToBag({p})) (+) SetToBag({q})

\* The admin requests handler op has answered.
AnsweredAdmin(op) == {q \in BagToSet(admin_reqs) : At(q, op, "done")}

\* select(User).where(User.email == ..)
UsersByEmail(email) == {i \in DOMAIN users : users[i].email = email}

\* Unique constraint on User.email.
EmailFree(email) == UsersByEmail(email) = {}

\* Foreign key of APIToken.user_id to User.id.
UserExists(uid) == uid \in DOMAIN users

\* The lookup by email of create_user: an existing user is returned with 200,
\* else the handler goes on to insert.
CreateUserLookup(email) ==
    /\ CanArriveAdmin
    /\ \/ /\ UsersByEmail(email) = {}
          /\ AdmitAdmin([EnterAdmin("create_user", email, 0) EXCEPT
                            !.pc = "commit_user"])
       \/ \E i \in UsersByEmail(email) :
            AdmitAdmin([EnterAdmin("create_user", email, i) EXCEPT
                            !.pc = "done", !.status = HTTP_200_OK])
    /\ UNCHANGED <<users, api_tokens>>
    /\ UNCHANGED meeting_vars

\* db.add(db_user); await db.commit(); await db.refresh(db_user).  The handler
\* catches nothing: a violated unique constraint ends the request with a
\* server error.
CreateUserCommit(q) ==
    /\ At(q, "create_user", "commit_user")
    /\ IF EmailFree(q.email)
         THEN /\ users' = Append(users, [email |-> q.email])
              /\ StepAdmin(q, [q EXCEPT !.pc = "done",
                                        !.user_id = Len(users) + 1,
                                        !.status = HTTP_201_CREATED])
         ELSE /\ users' = users
              /\ StepAdmin(q, [q EXCEPT !.pc = "done",
                                        !.status = HTTP_500_INTERNAL_SERVER_ERROR,
                                        !.err = "integrity"])
    /\ UNCHANGED api_tokens
    /\ UNCHANGED meeting_vars

\* create_token_for_user: the token row is added and committed without a look
\* at the User table; the foreign key refuses the row of a user that does not
\* exist and the unhandled error ends the request with a server error.  The
\* generated token is taken to be fresh.
CreateTokenForUser(uid) ==
    /\ CanArriveAdmin
    /\ IF UserExists(uid)
         THEN /\ api_tokens' = Append(api_tokens,
                    [token |-> Len(api_tokens) + 1, user_id |-> uid])
              /\ AdmitAdmin([EnterAdmin("create_token_for_user", "", uid) EXCEPT
                                !.pc = "done", !.status = HTTP_201_CREATED])
         ELSE /\ api_tokens' = api_tokens
              /\ AdmitAdmin([EnterAdmin("create_token_for_user", "", uid) EXCEPT
                                !.pc = "done",
                                !.status = HTTP_500_INTERNAL_SERVER_ERROR,
                                !.err = "integrity"])
    /\ UNCHANGED users
    /\ UNCHANGED meeting_vars

\* ---------------------------------------------------------------------- spec
Next ==
    \/ \E u \in Users, k \in Keys : RequestBotLookup(u, k)
            /\ UNCHANGED admin_vars
    \/ \E q \in BagToSet(reqs) : RequestBotCheckLink(q)
            /\ UNCHANGED admin_vars
    \/ \E q \in BagToSet(reqs) : RequestBotCommitLink(q)
            /\ UNCHANGED admin_vars
    \/ \E q \in BagToSet(reqs) : RequestBotCommitMeeting(q)
            /\ UNCHANGED admin_vars
    \/ \E q \in BagToSet(reqs) : RequestBotCommitNewLink(q)
            /\ UNCHANGED admin_vars
    \/ \E u \in Users, k \in Keys : StopBot(u, k)
            /\ UNCHANGED admin_vars
    \/ \E k \in Keys : WebhookLookup(k)
            /\ UNCHANGED admin_vars
    \/ \E q \in BagToSet(reqs) : WebhookCommit(q)
            /\ UNCHANGED admin_vars
    \/ \E u \in Users, k \in Keys : GetTranscriptLookup(u, k)
            /\ UNCHANGED admin_vars
    \/ \E q \in BagToSet(reqs) : GetTranscriptCached(q)
            /\ UNCHANGED admin_vars

Spec == Init /\ [][Next]_vars

\* The admin handlers on their own: they share no table with the handlers of
\* the meeting lifecycle.
AdminNext ==
    \/ \E email \in Emails : CreateUserLookup(email)
    \/ \E q \in BagToSet(admin_reqs) : CreateUserCommit(q)
    \/ \E uid \in Users : CreateTokenForUser(uid)

AdminSpec == Init /\ [][AdminNext]_vars

\* ================================================================== claims
\* The requests answered by the step being taken.
NewlyAnswered ==
    {q \in BagToSet(reqs') :
        q.pc = "done" /\ CopiesIn(q, reqs') > CopiesIn(q, reqs)}

\* The meeting row is archived.
Archived(row) == ~row.is_live /\ row.transcript_cached

\* Number of Transcription rows of meeting m that start at x.
StoredAt(m, x) ==
    Cardinality({i \in DOMAIN transcriptions :
        transcriptions[i].meeting_id = m /\ transcriptions[i].start_time = x})

\* Number of entries of the sequence s equal to x.
Count(s, x) == Cardinality({i \in DOMAIN s : s[i] = x})

\* C1: in every reachable committed state at most one Meeting row exists for
\* each (platform, external meeting id) pair, whatever request_bot calls were
\* made and however they interleaved.
C1_OneMeetingPerNaturalKey ==
    \A k \in Keys : Cardinality(MeetingsByKey(k)) <= 1

\* Two users raced to create the same meeting (both went upstream and both
\* reached the insert) and one row exists.
C1_Witness ==
    \E a, b \in Answered("request_bot") :
        /\ a.user # b.user /\ a.key = b.key
        /\ a.calls = {"request_bot"} /\ b.calls = {"request_bot"}
        /\ a.err # "infra" /\ b.err # "infra"
        /\ infra_bots[a.key] = 2
        /\ Cardinality(MeetingsByKey(a.key)) = 1

\* The users whose request_bot for key k went upstream and was served.
Provisioners(k) ==
    {q.user : q \in {p \in BagToSet(reqs) :
        /\ p.op = "request_bot" /\ p.key = k
        /\ "request_bot" \in p.calls /\ p.err # "infra"}}

\* C2: for each natural key the upstream request_bot is invoked on behalf of
\* at most one user, however the request_bot calls of distinct users
\* interleave (calls the upstream service refused are not counted).
C2_AtMostOneUpstreamRequest ==
    \A k \in Keys : Cardinality(Provisioners(k)) <= 1

\* C3: when two distinct users have requested the same meeting and neither
\* was refused upstream, both requests are answered 201 and both users are
\* linked to the one Meeting row.
C3_RaceLoserIsLinked ==
    \A a, b \in Answered("request_bot") :
        (a.user # b.user /\ a.key = b.key /\ a.err # "infra" /\ b.err # "infra")
            => /\ a.status = HTTP_201_CREATED
               /\ b.status = HTTP_201_CREATED
               /\ \E m \in MeetingsByKey(a.key) :
                    LinksOf(a.user, m) # {} /\ LinksOf(b.user, m) # {}

\* C4: every request_bot that found the meeting and went on to link its user
\* is answered 201, and exactly one UserMeeting row exists for the pair.
C4_LinkIdempotent ==
    \A q \in Answered("request_bot") :
        (q.meeting # 0 /\ q.calls = {})
            => /\ q.status = HTTP_201_CREATED
               /\ Cardinality(LinksOf(q.user, q.meeting)) = 1

\* The step changes no Transcription row and no Meeting row.
NothingApplied ==
    /\ transcriptions' = transcriptions
    /\ \A i \in DOMAIN meetings : i \in DOMAIN meetings' /\ meetings'[i] = meetings[i]

\* The step applies the finalization staged by q in full: its segments are
\* appended, its meeting is archived, and nothing else changes.
FullyApplied(q) ==
    /\ At(q, "handle_webhook", "commit")
    /\ CopiesIn(q, reqs') < CopiesIn(q, reqs)
    /\ Len(transcriptions') = Len(transcriptions) + Len(q.pending)
    /\ \A i \in DOMAIN transcriptions : transcriptions'[i] = transcriptions[i]
    /\ \A i \in DOMAIN q.pending :
         transcriptions'[Len(transcriptions) + i] =
            [meeting_id |-> q.meeting, start_time |-> q.pending[i]]
    /\ DOMAIN meetings' = DOMAIN meetings
    /\ Archived(meetings'[q.meeting])
    /\ \A i \in DOMAIN meetings : i # q.meeting => meetings'[i] = meetings[i]

\* C5: finalize is all-or-nothing on committed state: every step either
\* leaves the segments and the Meeting rows as they were, or is the commit of
\* one webhook that stores all its segments and sets is_live=false and
\* transcript_cached=true together; a webhook answered with a failed fetch or
\* a failed commit has changed nothing.
C5_FinalizeAllOrNothing ==
    [][ /\ \/ NothingApplied
           \/ \E q \in BagToSet(reqs) : FullyApplied(q)
        /\ \A q \in NewlyAnswered :
             (q.op = "handle_webhook" /\ q.err \in {"fetch", "commit"})
                => NothingApplied
      ]_vars

\* One finalization failed at the commit and one went through with segments.
C5_Witness ==
    /\ \E q \in Answered("handle_webhook") : q.err = "commit"
    /\ \E q \in Answered("handle_webhook") :
         /\ q.status = HTTP_200_OK
         /\ Archived(meetings[q.meeting])
         /\ \E x \in StartTimes : StoredAt(q.meeting, x) > 0

\* C6: a webhook whose cleanup call failed after the commit is still answered
\* with success.
C6_CleanupFailureNotSurfaced ==
    \A q \in Answered("handle_webhook") :
        q.err = "cleanup" => q.status = HTTP_200_OK

\* C7: get_transcript answers anything but 404, or goes on to read the cache,
\* only for a caller linked to the meeting with the requested natural key; a
\* 404 carries no segments and comes without an upstream call.
C7_UnlinkedGetsNotFound ==
    \A q \in BagToSet(reqs) :
        q.op = "get_transcript"
            => /\ q.status = HTTP_404_NOT_FOUND
                    => q.segments = <<>> /\ q.calls = {} /\ q.source = ""
               /\ q.status # HTTP_404_NOT_FOUND
                    => /\ q.meeting \in DOMAIN meetings
                       /\ KeyOf(meetings[q.meeting]) = q.key
                       /\ \E i \in DOMAIN user_meetings :
                            /\ user_meetings[i].user_id = q.user
                            /\ user_meetings[i].meeting_id = q.meeting

\* A user without a link was answered 404 for an archived meeting whose
\* segments are stored.
C7_Witness ==
    \E q \in Answered("get_transcript") :
        /\ q.status = HTTP_404_NOT_FOUND
        /\ \E m \in MeetingsByKey(q.key) :
             /\ LinksOf(q.user, m) = {}
             /\ Archived(meetings[m])
             /\ \E x \in StartTimes : StoredAt(m, x) > 0

\* C8: a request_bot that found no meeting and was refused upstream is
\* answered 502 and the step stores nothing.
C8_UpstreamFailureStoresNothing ==
    [][ \A q \in NewlyAnswered :
            (q.op = "request_bot" /\ q.err = "infra")
                => /\ q.status = HTTP_502_BAD_GATEWAY
                   /\ meetings' = meetings
                   /\ user_meetings' = user_meetings
                   /\ transcriptions' = transcriptions
      ]_vars

\* A refused request_bot was answered and its meeting has no row.
C8_Witness ==
    \E q \in Answered("request_bot") :
        /\ q.err = "infra"
        /\ q.status = HTTP_502_BAD_GATEWAY
        /\ MeetingsByKey(q.key) = {}
        /\ user_meetings = <<>>

\* C9: an archived Meeting row stays archived in every step, and a step that
\* answers a stop_bot changes no Meeting row.
C9_LifecycleMonotone ==
    [][ /\ \A i \in DOMAIN meetings :
             Archived(meetings[i])
                => i \in DOMAIN meetings' /\ Archived(meetings'[i])
        /\ (\E q \in NewlyAnswered : q.op = "stop_bot") => meetings' = meetings
      ]_vars

\* A request_bot of a second user found the meeting, the meeting is archived
\* and the second user is linked to it.
C9_Witness ==
    \E q \in Answered("request_bot") :
        /\ q.calls = {}
        /\ q.status = HTTP_201_CREATED
        /\ Archived(meetings[q.meeting])
        /\ Len(user_meetings) = 2

\* C10: get_transcript of a linked user goes upstream exactly when the
\* is_live flag it loaded is true; an answer from the cache makes no upstream
\* call, belongs to a meeting that is no longer live, and holds only stored
\* segments of that meeting.
C10_RoutedByIsLive ==
    \A q \in BagToSet(reqs) :
        (q.op = "get_transcript" /\ q.meeting # 0)
            => /\ ("get_transcript" \in q.calls) <=> q.is_live
               /\ q.source = "infra" => q.is_live
               /\ (q.pc = "done" /\ ~q.is_live) => q.source = "cache"
               /\ q.source = "cache"
                    => /\ ~q.is_live
                       /\ q.calls = {}
                       /\ ~meetings[q.meeting].is_live
                       /\ \A x \in StartTimes :
                            Count(q.segments, x) <= StoredAt(q.meeting, x)

\* A transcript of two segments was served from the cache.
C10_Witness ==
    \E q \in Answered("get_transcript") :
        /\ q.source = "cache"
        /\ Len(q.segments) >= 2
        /\ q.calls = {}

\* The sequence s ascends.
Ascending(s) == \A i, j \in DOMAIN s : i < j => s[i] <= s[j]

\* Number of rows of meeting m that start at x among the first n rows of the
\* Transcription table.
StoredAtWithin(n, m, x) ==
    Cardinality({i \in 1..n :
        transcriptions[i].meeting_id = m /\ transcriptions[i].start_time = x})

\* C11: the segment list get_transcript returns from the cache ascends by
\* start_time, whatever order the webhook stored the segments in, and holds
\* exactly the segments of that meeting that were stored when it was read
\* (the table only grows, so they are the meeting's rows of a prefix of it).
C11_CachedReadOrdered ==
    \A q \in Answered("get_transcript") :
        q.source = "cache"
            => /\ Ascending(q.segments)
               /\ \E n \in 0..Len(transcriptions) :
                    \A x \in StartTimes :
                        Count(q.segments, x) = StoredAtWithin(n, q.meeting, x)

\* The upstream service delivered the later segment first and the cache read
\* returned the earlier one first.
C11_Witness ==
    \E q \in Answered("get_transcript") :
        /\ q.source = "cache"
        /\ q.segments = <<1, 2>>
        /\ Archived(meetings[q.meeting])
        /\ StartTimesOf(transcriptions, q.meeting) = <<2, 1>>

\* The step commits the finalization staged by q.
Commits(q) ==
    /\ At(q, "handle_webhook", "commit")
    /\ CopiesIn(q, reqs') < CopiesIn(q, reqs)
    /\ \E p \in NewlyAnswered :
         /\ p.op = "handle_webhook" /\ p.meeting = q.meeting
         /\ "delete_meeting" \in p.calls

\* Number of Transcription rows of meeting m that start at x after the step.
StoredAtNext(m, x) ==
    Cardinality({i \in DOMAIN transcriptions' :
        transcriptions'[i].meeting_id = m /\ transcriptions'[i].start_time = x})

\* C14: finalize has no de-duplication guard: a webhook that commits for a
\* meeting that is already archived appends every segment it fetched once
\* more, and the meeting stays archived.
C14_RedeliveryReappends ==
    [][ \A q \in BagToSet(reqs) :
            (Commits(q) /\ Archived(meetings[q.meeting]))
                => /\ Len(transcriptions') = Len(transcriptions) + Len(q.pending)
                   /\ \A x \in StartTimes :
                        StoredAtNext(q.meeting, x) =
                            StoredAt(q.meeting, x) + Count(q.pending, x)
                   /\ Archived(meetings'[q.meeting])
      ]_vars

\* The same transcript was delivered twice for one meeting and each of its
\* segments is stored twice.
C14_Witness ==
    \E q \in Answered("handle_webhook") :
        /\ q.status = HTTP_200_OK
        /\ CopiesIn(q, reqs) = 2
        /\ Archived(meetings[q.meeting])
        /\ StartTimesOf(transcriptions, q.meeting) = <<2, 1, 2, 1>>

\* C15: in every committed state a live meeting has no stored segments and
\* is_live=false holds exactly when transcript_cached=true, so every answer
\* that carries segments from the cache belongs to a meeting that is not live.
C15_LiveMeetingHasNoSegments ==
    /\ \A i \in DOMAIN meetings :
         /\ meetings[i].is_live => \A x \in StartTimes : StoredAt(i, x) = 0
         /\ ~meetings[i].is_live <=> meetings[i].transcript_cached
    /\ \A i \in DOMAIN transcriptions :
         /\ transcriptions[i].meeting_id \in DOMAIN meetings
         /\ ~meetings[transcriptions[i].meeting_id].is_live
    /\ \A q \in BagToSet(reqs) :
         (q.op = "get_transcript" /\ q.segments # <<>>)
            => ~meetings[q.meeting].is_live

\* A finalization of a live meeting failed at the commit, another delivery has
\* staged segments that are not committed yet, and the meeting is live with
\* nothing stored.
C15_Witness ==
    \E q \in Answered("handle_webhook") :
        /\ q.err = "commit"
        /\ meetings[q.meeting].is_live
        /\ ~meetings[q.meeting].transcript_cached
        /\ transcriptions = <<>>
        /\ \E p \in BagToSet(reqs) :
             /\ At(p, "handle_webhook", "commit")
             /\ p.meeting = q.meeting
             /\ p.pending # <<>>

\* C12: create_user is safe under concurrent calls with the same email: at
\* most one User row exists per email and every create_user is answered with
\* the user, created (201) or found (200), never with an error.
C12_CreateUserRaceFindsExisting ==
    /\ \A email \in Emails : Cardinality(UsersByEmail(email)) <= 1
    /\ \A q \in AnsweredAdmin("create_user") :
         /\ q.status \in {HTTP_200_OK, HTTP_201_CREATED}
         /\ q.user_id \in UsersByEmail(q.email)

\* C13: create_token_for_user for a user id that does not exist is answered
\* 404 and leaves no APIToken row; for an existing user it is answered 201
\* and a token row of that user is stored.
C13_TokenForUnknownUserNotFound ==
    /\ \A i \in DOMAIN api_tokens : UserExists(api_tokens[i].user_id)
    /\ \A q \in AnsweredAdmin("create_token_for_user") :
         IF UserExists(q.user_id)
           THEN q.status = HTTP_201_CREATED
                    => \E i \in DOMAIN api_tokens : api_tokens[i].user_id = q.user_id
           ELSE q.status = HTTP_404_NOT_FOUND
====
